---- MODULE Spec2Model ----
(***************************************************************************)
(* Model of geopy/geocoders/geocodefarm.py: the GeocodeFarm client.        *)
(*                                                                         *)
(* Python values are represented as follows.                               *)
(*   str    a sequence of one-character strings, wrapped as Str(s) where   *)
(*          the value may also be None;                                    *)
(*   None   PyNone;                                                        *)
(*   dict   a function whose DOMAIN is the set of keys present;            *)
(*   list   a sequence;                                                    *)
(*   float  Float(mant, frac): mant / 10^frac, in lowest form.             *)
(* A call's result is an outcome record: a returned None, a returned       *)
(* Location, a returned list of Locations, or a raised exception.          *)
(***************************************************************************)
EXTENDS Integers, Sequences, FiniteSets, TLC

\* ---------------------------------------------------------------- bounds
MaxResults == 2      \* longest RESULTS list the provider sends
MaxQueryLen == 3     \* longest canonical reverse-query string

\* ---------------------------------------------------------- Python values
PyNone == [t |-> "none"]
Str(s) == [t |-> "str", s |-> s]
Float(m, f) == [t |-> "float", mant |-> m, frac |-> f]
EmptyDict == [k \in {} |-> PyNone]

\* dict.get(key, default)
Get(d, key, default) == IF key \in DOMAIN d THEN d[key] ELSE default

\* Python truthiness of None / str / float
Truthy(v) ==
    CASE v.t = "none" -> FALSE
      [] v.t = "str" -> v.s # <<>>
      [] v.t = "float" -> v.mant # 0

\* needle in hay (substring test on str)
Contains(needle, hay) ==
    \E i \in 0..(Len(hay) - Len(needle)) :
        SubSeq(hay, i + 1, i + Len(needle)) = needle

\* ------------------------------------------------------------ str.split
RECURSIVE Split(_, _)
Split(s, sep) ==
    IF \A i \in 1..Len(s) : s[i] # sep
    THEN <<s>>
    ELSE LET i == CHOOSE j \in 1..Len(s) :
                      s[j] = sep /\ \A k \in 1..(j - 1) : s[k] # sep
         IN <<SubSeq(s, 1, i - 1)>> \o Split(SubSeq(s, i + 1, Len(s)), sep)

\* ------------------------------------------------------------ str.strip
RECURSIVE LStrip(_)
LStrip(s) == IF s # <<>> /\ s[1] = " " THEN LStrip(Tail(s)) ELSE s

RECURSIVE RStrip(_)
RStrip(s) ==
    IF s # <<>> /\ s[Len(s)] = " " THEN RStrip(SubSeq(s, 1, Len(s) - 1)) ELSE s

Strip(s) == RStrip(LStrip(s))

\* ---------------------------------------------------------------- float
Digits == {"0", "1", "2", "3", "4", "5", "6", "7", "8", "9"}
DigitVal == ("0" :> 0) @@ ("1" :> 1) @@ ("2" :> 2) @@ ("3" :> 3) @@ ("4" :> 4)
            @@ ("5" :> 5) @@ ("6" :> 6) @@ ("7" :> 7) @@ ("8" :> 8) @@ ("9" :> 9)

RECURSIVE DigitsToNat(_)
DigitsToNat(ds) ==
    IF ds = <<>> THEN 0
    ELSE 10 * DigitsToNat(SubSeq(ds, 1, Len(ds) - 1)) + DigitVal[ds[Len(ds)]]

RECURSIVE Normalize(_, _)
Normalize(m, f) ==
    IF m = 0 THEN Float(0, 0)
    ELSE IF f > 0 /\ m % 10 = 0 THEN Normalize(m \div 10, f - 1)
    ELSE Float(m, f)

\* float(s) for a decimal literal: optional sign, digits, optional point
PyFloat(v) ==
    LET s == v.s
        neg == s # <<>> /\ s[1] = "-"
        body == IF neg THEN Tail(s) ELSE s
        parts == Split(body, ".")
        whole == parts[1]
        fracd == IF Len(parts) > 1 THEN parts[2] ELSE <<>>
        mag == DigitsToNat(whole \o fracd)
    IN Normalize(IF neg THEN 0 - mag ELSE mag, Len(fracd))

\* --------------------------------------------------- geopy.compat.urlencode
Unreserved == Digits \cup {"a", "b", "k", "P", "X", "-", ".", "_"}
PercentCode == ("," :> <<"%", "2", "C">>) @@ ("&" :> <<"%", "2", "6">>)
               @@ ("=" :> <<"%", "3", "D">>) @@ ("+" :> <<"%", "2", "B">>)
               @@ ("%" :> <<"%", "2", "5">>)

\* quote_plus: unreserved characters kept, space to "+", others to %XX
RECURSIVE QuotePlus(_)
QuotePlus(s) ==
    IF s = <<>> THEN <<>>
    ELSE (IF s[1] = " " THEN <<"+">>
          ELSE IF s[1] \in Unreserved THEN <<s[1]>>
          ELSE PercentCode[s[1]]) \o QuotePlus(Tail(s))

\* urlencode(params): "k=v" items in insertion order joined by "&"
RECURSIVE urlencode(_)
urlencode(ps) ==
    IF ps = <<>> THEN <<>>
    ELSE ps[1][1] \o <<"=">> \o QuotePlus(ps[1][2])
         \o (IF Len(ps) > 1 THEN <<"&">> ELSE <<>>) \o urlencode(Tail(ps))

\* "?".join((base, encoded))
JoinUrl(base, encoded) == base \o <<"?">> \o encoded

\* -------------------------------------------------------- client settings
scheme == <<"h", "t", "t", "p", "s">>
host_path == <<":", "/", "/", "w", "w", "w", ".", "g", "e", "o", "c", "o", "d", "e",
               ".", "f", "a", "r", "m", "/", "v", "3", "/", "j", "s", "o", "n", "/">>
forward_api == scheme \o host_path \o <<"f", "o", "r", "w", "a", "r", "d", "/">>
reverse_endpoint == scheme \o host_path \o <<"r", "e", "v", "e", "r", "s", "e", "/">>

K_addr == <<"a", "d", "d", "r">>
K_key == <<"k", "e", "y">>
K_lat == <<"l", "a", "t">>
K_lon == <<"l", "o", "n">>

\* api_key values a client can be constructed with: None, "", "k1"
ApiKeys == {PyNone, Str(<<>>), Str(<<"k", "1">>)}
\* format_string values: "%s" and "%s, X", as the text around the slot
FormatStrings == {[pre |-> <<>>, post |-> <<>>],
                  [pre |-> <<>>, post |-> <<",", " ", "X">>]}
\* format_string % query
Format(fs, q) == fs.pre \o q \o fs.post

ForwardQueries == {<<"P">>, <<"a", " ", "b">>}
QueryAlphabet == {",", " ", "1"}
ReverseQueries == UNION {[1..n -> QueryAlphabet] : n \in 0..MaxQueryLen}

\* --------------------------------------------------- provider responses
NO_RESULTS == <<"N", "O", "_", "R", "E", "S", "U", "L", "T", "S">>
SUCCESS == <<"S", "U", "C", "C", "E", "S", "S">>
FAILED == <<"F", "A", "I", "L", "E", "D">>
StatusValues ==
    {SUCCESS, NO_RESULTS, FAILED, <<>>,
     FAILED \o <<",", " ">> \o NO_RESULTS,
     <<"n", "o", "_", "r", "e", "s", "u", "l", "t", "s">>,
     <<"N", "O", "_", "R", "E", "S", "U", "L", "T">>,
     SUCCESS \o <<" ">>}
AccessValues == {"API_KEY_INVALID", "OVER_QUERY_LIMIT", "UNKNOWN_ERROR",
                 "api_key_invalid"}
StatusMaps ==
    {EmptyDict}
    \cup {("status" :> s) : s \in StatusValues}
    \cup {("access" :> Str(a)) : a \in AccessValues}
    \cup {("status" :> s) @@ ("access" :> Str(a)) :
              s \in StatusValues, a \in AccessValues}

Lat15 == Str(<<"1", ".", "5">>)
LonM2 == Str(<<"-", "2">>)
AddrAB == ("address_returned" :> Str("A")) @@ ("address" :> Str("B"))
\* entries with both coordinates, with latitude only, with an empty
\* latitude and no ADDRESS, and with no COORDINATES
Entries ==
    {("COORDINATES" :> (("latitude" :> Lat15) @@ ("longitude" :> LonM2)))
        @@ ("ADDRESS" :> AddrAB),
     ("COORDINATES" :> ("latitude" :> Lat15))
        @@ ("ADDRESS" :> ("address" :> Str("B"))),
     ("COORDINATES" :> (("latitude" :> Str(<<>>)) @@ ("longitude" :> LonM2))),
     ("ADDRESS" :> AddrAB)}
ResultLists == UNION {[1..n -> Entries] : n \in 0..MaxResults}
Envelopes ==
    {EmptyDict}
    \cup {("STATUS" :> st) : st \in StatusMaps}
    \cup {("RESULTS" :> rs) : rs \in ResultLists}
    \cup {("STATUS" :> st) @@ ("RESULTS" :> rs) :
              st \in StatusMaps, rs \in ResultLists}
Bodies ==
    {PyNone, EmptyDict, ("error" :> Str("x"))}
    \cup {("geocoding_results" :> e) : e \in Envelopes}
TransportErrors == {"GeocoderTimedOut", "GeocoderUnavailable"}

\* ------------------------------------------------------------- outcomes
Pending == [kind |-> "pending"]
ReturnNone == [kind |-> "none"]
ReturnOne(l) == [kind |-> "one", loc |-> l]
ReturnList(ls) == [kind |-> "list", locs |-> ls]
Raise(e, d) == [kind |-> "raise", exc |-> e, detail |-> d]

\* geopy.location.Location(address, (latitude, longitude), raw)
Location(placename, latitude, longitude, result) ==
    [address |-> placename, latitude |-> latitude, longitude |-> longitude,
     raw |-> result]

\* ------------------------------------------------- GeocodeFarm.parse_code
\* one iteration of the loop over RESULTS
parse_result(result) ==
    LET coordinates == Get(result, "COORDINATES", EmptyDict)
        address == Get(result, "ADDRESS", EmptyDict)
        latitude == Get(coordinates, "latitude", PyNone)
        longitude == Get(coordinates, "longitude", PyNone)
        returned == Get(address, "address_returned", PyNone)
        placename == IF returned = PyNone
                     THEN Get(address, "address", PyNone)
                     ELSE returned
    IN IF Truthy(latitude) /\ Truthy(longitude)
       THEN Location(placename, PyFloat(latitude), PyFloat(longitude), result)
       ELSE Location(placename, latitude, longitude, result)

RECURSIVE append_places(_)
append_places(rs) ==
    IF rs = <<>> THEN <<>>
    ELSE Append(append_places(SubSeq(rs, 1, Len(rs) - 1)),
                parse_result(rs[Len(rs)]))

parse_code_prepending(results) ==
    IF "RESULTS" \notin DOMAIN results
    THEN [raised |-> TRUE, exc |-> Raise("TypeError", Str("RESULTS")),
          places |-> <<>>]
    ELSE LET rs == results["RESULTS"]
         IN [raised |-> FALSE,
             places |-> [i \in 1..Len(rs) |->
                             parse_result(rs[Len(rs) + 1 - i])]]

\* results.get('RESULTS') is None when the key is absent, and iterating
\* None raises TypeError
parse_code(results) ==
    IF "RESULTS" \notin DOMAIN results
    THEN [raised |-> TRUE, exc |-> Raise("TypeError", Str("RESULTS")),
          places |-> <<>>]
    ELSE [raised |-> FALSE, places |-> append_places(results["RESULTS"])]

\* ---------------------------------------- GeocodeFarm._check_for_api_errors
access_error_to_exception_swapped ==
    ("API_KEY_INVALID" :> "GeocoderQuotaExceeded")
    @@ ("OVER_QUERY_LIMIT" :> "GeocoderAuthenticationFailure")

access_error_to_exception ==
    ("API_KEY_INVALID" :> "GeocoderAuthenticationFailure")
    @@ ("OVER_QUERY_LIMIT" :> "GeocoderQuotaExceeded")

\* ReturnNone when nothing is raised
check_for_api_errors(geocoding_results) ==
    LET status_result == Get(geocoding_results, "STATUS", EmptyDict)
    IN IF Contains(NO_RESULTS, Get(status_result, "status", <<>>))
       THEN ReturnNone
       ELSE LET api_call_success ==
                    Get(status_result, "status", <<>>) = SUCCESS
                access_error == Get(status_result, "access", PyNone)
                exception_cls ==
                    IF access_error.t = "str"
                       /\ access_error.s \in DOMAIN access_error_to_exception
                    THEN access_error_to_exception[access_error.s]
                    ELSE "GeocoderServiceError"
            IN IF ~api_call_success
               THEN Raise(exception_cls, access_error)
               ELSE ReturnNone

\* -------------------------------------------------- GeocodeFarm._parse_json
select_last(places, exactly_one) ==
    IF exactly_one
    THEN IF places = <<>>
         THEN Raise("IndexError", Str("places"))
         ELSE ReturnOne(places[Len(places)])
    ELSE ReturnList(places)

\* places[0] if exactly_one else places
select(places, exactly_one) ==
    IF exactly_one
    THEN IF places = <<>>
         THEN Raise("IndexError", Str("places"))
         ELSE ReturnOne(places[1])
    ELSE ReturnList(places)

Interpreted(out, st, pl) == [outcome |-> out, stages |-> st, places |-> pl]

no_results_if_equal(geocoding_results) ==
    Get(Get(geocoding_results, "STATUS", EmptyDict), "status", <<>>)
        = NO_RESULTS

\* "NO_RESULTS" in geocoding_results.get("STATUS", {}).get("status", "")
no_results(geocoding_results) ==
    Contains(NO_RESULTS,
             Get(Get(geocoding_results, "STATUS", EmptyDict), "status", <<>>))

\* the steps of _parse_json once the envelope lookup has succeeded
classify_and_decode(geocoding_results, exactly_one) ==
    LET checked == check_for_api_errors(geocoding_results)
        decoded == parse_code(geocoding_results)
    IN IF checked.kind = "raise"
       THEN Interpreted(checked, <<"parse_json", "envelope", "classify">>,
                        <<>>)
       ELSE IF no_results(geocoding_results)
       THEN Interpreted(ReturnNone, <<"parse_json", "envelope", "classify">>,
                        <<>>)
       ELSE IF decoded.raised
       THEN Interpreted(decoded.exc,
                        <<"parse_json", "envelope", "classify", "decode">>,
                        <<>>)
       ELSE Interpreted(select(decoded.places, exactly_one),
                        <<"parse_json", "envelope", "classify", "decode",
                          "select">>,
                        decoded.places)

parse_json_without_none_check(api_result, exactly_one) ==
    IF "geocoding_results" \notin DOMAIN api_result
    THEN Interpreted(Raise(IF api_result = PyNone THEN "TypeError"
                           ELSE "KeyError", Str("geocoding_results")),
                     <<"parse_json", "envelope">>, <<>>)
    ELSE classify_and_decode(api_result["geocoding_results"], exactly_one)

\* the outcome, the stages run and the decoded places of one call;
\* api_result["geocoding_results"] raises KeyError when the key is absent
parse_json(api_result, exactly_one) ==
    IF api_result = PyNone
    THEN Interpreted(ReturnNone, <<"parse_json">>, <<>>)
    ELSE IF "geocoding_results" \notin DOMAIN api_result
    THEN Interpreted(Raise("KeyError", Str("geocoding_results")),
                     <<"parse_json", "envelope">>, <<>>)
    ELSE classify_and_decode(api_result["geocoding_results"], exactly_one)

\* ------------------------------------------------------- request building
with_key_unless_none(params, key) ==
    IF key # PyNone THEN Append(params, <<K_key, key.s>>) ELSE params

\* if self.api_key: params['key'] = self.api_key
with_key(params, key) ==
    IF Truthy(key) THEN Append(params, <<K_key, key.s>>) ELSE params

unpack_first_two(s) ==
    LET parts == Split(s, ",")
    IN IF Len(parts) < 2
       THEN [ok |-> FALSE, lat |-> <<>>, lon |-> <<>>]
       ELSE [ok |-> TRUE, lat |-> Strip(parts[1]), lon |-> Strip(parts[2])]

\* lat, lon = [x.strip() for x in s.split(',')], ValueError unless two parts
unpack(s) ==
    LET parts == Split(s, ",")
    IN IF Len(parts) # 2
       THEN [ok |-> FALSE, lat |-> <<>>, lon |-> <<>>]
       ELSE [ok |-> TRUE, lat |-> Strip(parts[1]), lon |-> Strip(parts[2])]

\* ------------------------------------------------------------------ state
VARIABLES
    api_key,        \* self.api_key
    format_string,  \* self.format_string
    api,            \* self.api
    reverse_api,    \* self.reverse_api
    pc,             \* "idle", "waiting" (inside _call_geocoder) or "done"
    op,             \* the method running: "geocode", "reverse" or "none"
    query,          \* the query argument
    exactly_one,    \* the exactly_one argument
    params,         \* the params dict, as its items in insertion order
    url,            \* the url handed to _call_geocoder
    calls,          \* calls of _call_geocoder made by the running method
    transport,      \* "none", "called", "returned" or the exception raised
    api_result,     \* the body _call_geocoder returned
    outcome,        \* what the method returned or raised
    stages,         \* the steps of _parse_json that ran
    places          \* the list parse_code built

config == <<api_key, format_string, api, reverse_api>>
response == <<api_result, stages, places>>
vars == <<api_key, format_string, api, reverse_api, pc, op, query, exactly_one,
          params, url, calls, transport, api_result, outcome, stages, places>>

\* GeocodeFarm.__init__, followed by no call yet
Init ==
    /\ api_key \in ApiKeys
    /\ format_string \in FormatStrings
    /\ api = forward_api
    /\ reverse_api = reverse_endpoint
    /\ pc = "idle"
    /\ op = "none"
    /\ query = <<>>
    /\ exactly_one = TRUE
    /\ params = <<>>
    /\ url = <<>>
    /\ calls = 0
    /\ transport = "none"
    /\ api_result = PyNone
    /\ outcome = Pending
    /\ stages = <<>>
    /\ places = <<>>

\* geocode up to the call of _call_geocoder
geocode(q, eo) ==
    /\ pc = "idle"
    /\ op' = "geocode"
    /\ query' = q
    /\ exactly_one' = eo
    /\ params' = with_key(<<<<K_addr, Format(format_string, q)>>>>, api_key)
    /\ url' = JoinUrl(api, urlencode(params'))
    /\ calls' = calls + 1
    /\ transport' = "called"
    /\ pc' = "waiting"
    /\ UNCHANGED <<config, response, outcome>>

\* reverse up to the call of _call_geocoder, or to the ValueError; q is the
\* string _coerce_point_to_string gives for the query
reverse(q, eo) ==
    /\ pc = "idle"
    /\ op' = "reverse"
    /\ query' = q
    /\ exactly_one' = eo
    /\ LET u == unpack(q)
       IN IF ~u.ok
          THEN /\ outcome' = Raise("ValueError",
                                   Str("Must be a coordinate pair or Point"))
               /\ pc' = "done"
               /\ UNCHANGED <<params, url, calls, transport>>
          ELSE /\ params' = with_key(<<<<K_lat, u.lat>>, <<K_lon, u.lon>>>>,
                                     api_key)
               /\ url' = JoinUrl(reverse_api, urlencode(params'))
               /\ calls' = calls + 1
               /\ transport' = "called"
               /\ pc' = "waiting"
               /\ UNCHANGED outcome
    /\ UNCHANGED <<config, response>>

TransportRaiseSwallowed(e) ==
    /\ pc = "waiting"
    /\ transport' = e
    /\ outcome' = parse_json(PyNone, exactly_one).outcome
    /\ stages' = parse_json(PyNone, exactly_one).stages
    /\ pc' = "done"
    /\ query' = <<>>
    /\ params' = <<>>
    /\ url' = <<>>
    /\ UNCHANGED <<config, op, exactly_one, calls, api_result, places>>

\* _call_geocoder raises: the exception leaves geocode / reverse as it is
TransportRaise(e) ==
    /\ pc = "waiting"
    /\ transport' = e
    /\ outcome' = Raise(e, Str("transport"))
    /\ pc' = "done"
    /\ query' = <<>>
    /\ params' = <<>>
    /\ url' = <<>>
    /\ UNCHANGED <<config, op, exactly_one, calls, response>>

\* _call_geocoder returns body and _parse_json runs on it to the end of the
\* method; the request locals are dead from here on
TransportReturn(body) ==
    /\ pc = "waiting"
    /\ transport' = "returned"
    /\ api_result' = body
    /\ LET r == parse_json(body, exactly_one)
       IN /\ outcome' = r.outcome
          /\ stages' = r.stages
          /\ places' = r.places
    /\ pc' = "done"
    /\ query' = <<>>
    /\ params' = <<>>
    /\ url' = <<>>
    /\ UNCHANGED <<config, op, exactly_one, calls>>

\* the caller has the outcome; the client is ready for the next call
Return ==
    /\ pc = "done"
    /\ pc' = "idle"
    /\ op' = "none"
    /\ query' = <<>>
    /\ exactly_one' = TRUE
    /\ params' = <<>>
    /\ url' = <<>>
    /\ calls' = 0
    /\ transport' = "none"
    /\ api_result' = PyNone
    /\ outcome' = Pending
    /\ stages' = <<>>
    /\ places' = <<>>
    /\ UNCHANGED config

Next ==
    \/ \E q \in ForwardQueries, eo \in BOOLEAN : geocode(q, eo)
    \/ \E q \in ReverseQueries, eo \in BOOLEAN : reverse(q, eo)
    \/ \E body \in Bodies : TransportReturn(body)
    \/ \E e \in TransportErrors : TransportRaise(e)
    \/ Return

Spec == Init /\ [][Next]_vars

\* ================================================================ claims
HasEnvelope(b) == b # PyNone /\ "geocoding_results" \in DOMAIN b
StatusMapOf(b) == Get(b["geocoding_results"], "STATUS", EmptyDict)
StatusOf(b) == Get(StatusMapOf(b), "status", <<>>)
AccessOf(b) == Get(StatusMapOf(b), "access", PyNone)
HasResults(b) == "RESULTS" \in DOMAIN b["geocoding_results"]
ResultsOf(b) == b["geocoding_results"]["RESULTS"]
\* the transport returned a body and the method has ended
Answered == pc = "done" /\ transport = "returned"
Ran(stage) == \E i \in 1..Len(stages) : stages[i] = stage
IsSubstring(w, s) ==
    \E pre, post \in 0..Len(s) :
        /\ pre + Len(w) + post = Len(s)
        /\ \A i \in 1..Len(w) : s[pre + i] = w[i]

\* C1: a body whose status neither contains "NO_RESULTS" nor equals
\* "SUCCESS" (STATUS or status may be missing) makes geocode and reverse
\* raise the error chosen by exact match on access:
\* GeocoderAuthenticationFailure for "API_KEY_INVALID",
\* GeocoderQuotaExceeded for "OVER_QUERY_LIMIT", GeocoderServiceError
\* otherwise, each carrying the access value; nothing is decoded or returned.
C1_FailureRaisesByAccess ==
    (/\ Answered
     /\ HasEnvelope(api_result)
     /\ ~IsSubstring(NO_RESULTS, StatusOf(api_result))
     /\ StatusOf(api_result) # SUCCESS)
    => /\ outcome.kind = "raise"
       /\ outcome.detail = AccessOf(api_result)
       /\ outcome.exc =
            IF AccessOf(api_result) = Str("API_KEY_INVALID")
            THEN "GeocoderAuthenticationFailure"
            ELSE IF AccessOf(api_result) = Str("OVER_QUERY_LIMIT")
            THEN "GeocoderQuotaExceeded"
            ELSE "GeocoderServiceError"
       /\ ~Ran("decode")
       /\ places = <<>>

C1_Witness ==
    /\ Answered
    /\ op = "reverse"
    /\ HasEnvelope(api_result)
    /\ StatusOf(api_result) = FAILED
    /\ AccessOf(api_result) = Str("OVER_QUERY_LIMIT")
    /\ outcome = Raise("GeocoderQuotaExceeded", Str("OVER_QUERY_LIMIT"))

\* C2: a body whose status contains "NO_RESULTS" makes geocode and reverse
\* return None, for either value of exactly_one and whatever access and
\* RESULTS are; nothing is raised and nothing is decoded.
C2_NoResultsReturnsNone ==
    (/\ Answered
     /\ HasEnvelope(api_result)
     /\ IsSubstring(NO_RESULTS, StatusOf(api_result)))
    => /\ outcome = ReturnNone
       /\ ~Ran("decode")

C2_Witness ==
    /\ Answered
    /\ ~exactly_one
    /\ HasEnvelope(api_result)
    /\ StatusOf(api_result) = FAILED \o <<",", " ">> \o NO_RESULTS
    /\ AccessOf(api_result) = Str("API_KEY_INVALID")
    /\ HasResults(api_result)
    /\ ResultsOf(api_result) # <<>>
    /\ outcome = ReturnNone

CommaCount(s) == Cardinality({i \in 1..Len(s) : s[i] = ","})
NoOuterSpace(t) == t = <<>> \/ (t[1] # " " /\ t[Len(t)] # " ")
\* t is s without its leading and trailing spaces
TrimOf(s, t) ==
    /\ NoOuterSpace(t)
    /\ \E a, b \in 0..Len(s) :
           /\ a + Len(t) + b = Len(s)
           /\ \A i \in 1..a : s[i] = " "
           /\ \A i \in 1..Len(t) : s[a + i] = t[i]
           /\ \A i \in 1..b : s[a + Len(t) + i] = " "
InvalidInput == Raise("ValueError", Str("Must be a coordinate pair or Point"))

\* C3: a reverse query string without exactly one "," (so not two parts)
\* ends the call with ValueError, with no params, no url and no call of
\* _call_geocoder in that invocation; a string of exactly two parts goes on
\* to the transport with lat = the first part trimmed and lon = the second
\* part trimmed.
C3_ReverseValidatesBeforeTransport ==
    /\ []((pc = "done" /\ outcome = InvalidInput)
            => (calls = 0 /\ transport = "none" /\ url = <<>>
                /\ params = <<>>))
    /\ [][(pc = "idle" /\ op' = "reverse")
            => IF CommaCount(query') # 1
               THEN /\ pc' = "done"
                    /\ outcome' = InvalidInput
               ELSE /\ pc' = "waiting"
                    /\ calls' = 1
                    /\ params'[1][1] = K_lat
                    /\ params'[2][1] = K_lon
                    /\ \E i \in 1..Len(query') :
                           /\ query'[i] = ","
                           /\ TrimOf(SubSeq(query', 1, i - 1), params'[1][2])
                           /\ TrimOf(SubSeq(query', i + 1, Len(query')),
                                     params'[2][2])]_vars

C3_Witness ==
    /\ pc = "done"
    /\ op = "reverse"
    /\ CommaCount(query) > 1
    /\ outcome = InvalidInput
    /\ calls = 0

\* the call decoded RESULTS to the end
Decoded == Answered /\ Ran("select")
Missing(m, key) == key \notin DOMAIN m \/ m[key] = PyNone \/ m[key] = Str(<<>>)
CoordinatesOf(result) ==
    IF "COORDINATES" \in DOMAIN result THEN result["COORDINATES"] ELSE EmptyDict

\* C4: an entry whose latitude or longitude is missing or empty decodes to
\* a location whose latitude and longitude are both None.
C4_MissingCoordinateGivesNullPair ==
    Decoded =>
        \A i \in 1..Len(places) :
            (\/ Missing(CoordinatesOf(ResultsOf(api_result)[i]), "latitude")
             \/ Missing(CoordinatesOf(ResultsOf(api_result)[i]), "longitude"))
            => (places[i].latitude = PyNone /\ places[i].longitude = PyNone)

\* C5 as claimed: a body that is None or an empty mapping makes the call
\* return None with no step of _parse_json after its entry.
C5_EmptyOrAbsentBodyReturnsNone ==
    (Answered /\ (api_result = PyNone \/ DOMAIN api_result = {}))
    => (outcome = ReturnNone /\ stages = <<"parse_json">>)

\* C5 as amended: a body that is None makes geocode and reverse return None
\* with no envelope lookup, no classification and no decoding, and no error.
C5_AbsentBodyReturnsNone ==
    (Answered /\ api_result = PyNone)
    => (outcome = ReturnNone /\ stages = <<"parse_json">> /\ places = <<>>)

C5_Witness ==
    /\ Answered
    /\ op = "geocode"
    /\ api_result = PyNone
    /\ outcome = ReturnNone

\* C6: whenever the call reaches places[0] (exactly_one true, after
\* classification and decoding) the decoded list is non-empty.
C6_SelectionSeesNonEmptyList ==
    (Answered /\ exactly_one /\ Ran("select")) => places # <<>>

\* the display name of an entry: address_returned, else address, else None
NameOf(result) ==
    LET a == IF "ADDRESS" \in DOMAIN result THEN result["ADDRESS"]
             ELSE EmptyDict
    IN IF "address_returned" \in DOMAIN a /\ a["address_returned"] # PyNone
       THEN a["address_returned"]
       ELSE IF "address" \in DOMAIN a THEN a["address"] ELSE PyNone
\* location l is the one built from entry r
BuiltFrom(l, r) == l.raw = r /\ l.address = NameOf(r)

\* C7: parse_code returns a list as long as RESULTS whose i-th location is
\* built from, and refers to, the i-th entry.
C7_DecodeKeepsOrder ==
    Decoded =>
        /\ Len(places) = Len(ResultsOf(api_result))
        /\ \A i \in 1..Len(places) :
               BuiltFrom(places[i], ResultsOf(api_result)[i])

C7_Witness ==
    /\ Decoded
    /\ Len(places) = 2
    /\ places[1].raw # places[2].raw
    /\ places[1].address # places[2].address

\* C8: status "SUCCESS" with a non-empty RESULTS makes the call return, for
\* exactly_one true, the location decoded from the first entry, and for
\* exactly_one false the list of all decoded locations in provider order;
\* an entry with latitude "1.5" and longitude "-2" gives the floats 1.5, -2.
C8_SuccessReturnsFirstOrAll ==
    (/\ Answered
     /\ HasEnvelope(api_result)
     /\ StatusOf(api_result) = SUCCESS
     /\ HasResults(api_result)
     /\ ResultsOf(api_result) # <<>>)
    => LET rs == ResultsOf(api_result)
           Good(l, r) ==
               /\ BuiltFrom(l, r)
               /\ (CoordinatesOf(r) = (("latitude" :> Lat15)
                                       @@ ("longitude" :> LonM2)))
                  => (l.latitude = Float(15, 1) /\ l.longitude = Float(-2, 0))
       IN IF exactly_one
          THEN outcome.kind = "one" /\ Good(outcome.loc, rs[1])
          ELSE /\ outcome.kind = "list"
               /\ Len(outcome.locs) = Len(rs)
               /\ \A i \in 1..Len(rs) : Good(outcome.locs[i], rs[i])

C8_Witness ==
    /\ Answered
    /\ exactly_one
    /\ HasEnvelope(api_result)
    /\ StatusOf(api_result) = SUCCESS
    /\ HasResults(api_result)
    /\ Len(ResultsOf(api_result)) = 2
    /\ ResultsOf(api_result)[1] # ResultsOf(api_result)[2]
    /\ outcome.kind = "one"
    /\ outcome.loc.latitude = Float(15, 1)

PercentDecode == (<<"%", "2", "C">> :> ",") @@ (<<"%", "2", "6">> :> "&")
                 @@ (<<"%", "3", "D">> :> "=") @@ (<<"%", "2", "B">> :> "+")
                 @@ (<<"%", "2", "5">> :> "%")
RECURSIVE UnquotePlus(_)
UnquotePlus(s) ==
    IF s = <<>> THEN <<>>
    ELSE IF s[1] = "+" THEN <<" ">> \o UnquotePlus(Tail(s))
    ELSE IF s[1] = "%"
    THEN <<PercentDecode[SubSeq(s, 1, 3)]>> \o UnquotePlus(SubSeq(s, 4, Len(s)))
    ELSE <<s[1]>> \o UnquotePlus(Tail(s))
\* the parameter set a query string decodes to
ParseQs(qs) ==
    LET items == Split(qs, "&")
    IN {<<Split(items[i], "=")[1], UnquotePlus(Split(items[i], "=")[2])>> :
            i \in 1..Len(items)}

\* C9: the params of a request hold key = api_key exactly when api_key is
\* neither None nor empty; the forward params are then exactly addr = the
\* formatted query plus that key, the reverse params exactly lat and lon
\* plus that key; the url is the endpoint, "?" and a query string that
\* decodes to exactly those params.
C9_KeyOnlyWhenConfigured ==
    pc = "waiting" =>
        LET ps == {params[i] : i \in 1..Len(params)}
            keyPart == IF api_key = PyNone \/ api_key.s = <<>>
                       THEN {}
                       ELSE {<<K_key, api_key.s>>}
            base == IF op = "geocode" THEN forward_api ELSE reverse_endpoint
        IN /\ Cardinality(ps) = Len(params)
           /\ keyPart \subseteq ps
           /\ op = "geocode" =>
                  ps = {<<K_addr,
                          format_string.pre \o query \o format_string.post>>}
                       \cup keyPart
           /\ op = "reverse" =>
                  /\ {p[1] : p \in ps} = {K_lat, K_lon} \cup {k[1] : k \in keyPart}
                  /\ Cardinality(ps) = 2 + Cardinality(keyPart)
           /\ SubSeq(url, 1, Len(base) + 1) = base \o <<"?">>
           /\ ParseQs(SubSeq(url, Len(base) + 2, Len(url))) = ps

C9_Witness ==
    /\ pc = "waiting"
    /\ op = "geocode"
    /\ api_key = Str(<<"k", "1">>)
    /\ query = <<"P">>
    /\ format_string.post = <<>>
    /\ {params[i] : i \in 1..Len(params)}
           = {<<K_addr, <<"P">>>>, <<K_key, <<"k", "1">>>>}

\* C10: a call of geocode or reverse calls _call_geocoder at most once and
\* goes idle -> waiting -> done or idle -> done, never back; when
\* _call_geocoder raises, that exception is the outcome and _parse_json does
\* not run; api_key, api and reverse_api never change.
C10_OneTraversal ==
    /\ [](/\ calls <= 1
          /\ (pc = "done") = (outcome # Pending)
          /\ transport \in TransportErrors
                 => /\ pc = "done"
                    /\ outcome.kind = "raise"
                    /\ outcome.exc = transport
                    /\ stages = <<>>)
    /\ [][/\ api_key' = api_key
          /\ api' = api
          /\ reverse_api' = reverse_api
          /\ pc = "idle" => pc' \in {"waiting", "done"}
          /\ pc = "waiting" => (pc' = "done" /\ calls' = calls)
          /\ pc = "done" => (pc' = "idle" /\ outcome' = Pending)]_vars

C10_Witness ==
    /\ pc = "done"
    /\ op = "reverse"
    /\ transport = "GeocoderTimedOut"
    /\ outcome.kind = "raise"
    /\ outcome.exc = "GeocoderTimedOut"
    /\ calls = 1

====
